---- MODULE Spec2Model ----
(***************************************************************************)
(* A model of code/python/ecat2nii.py: the conversion of a parsed ECAT     *)
(* scan (main header, one sub-header per frame, 4-D voxel array) into a    *)
(* NIfTI image.  The function is modelled statement block by statement     *)
(* block; a Python exception ends the call in pc = "error".                *)
(*                                                                         *)
(* Numbers.  The voxel arithmetic of the function is multiplication,       *)
(* division, comparison, max and min of single-precision floats.  It is    *)
(* modelled exactly: a value is NaN, +Inf, -Inf or a rational number kept  *)
(* as sign, numerator and denominator, the two being natural numbers of    *)
(* arbitrary size (digit sequences), because the products with 32767 and   *)
(* 32768 leave the 32-bit range.  Rounding to single precision and the     *)
(* sign of a zero are not modelled.                                        *)
(***************************************************************************)
EXTENDS Integers, Sequences, FiniteSets, TLC

(***************************************************************************)
(* Bounds of the model.                                                    *)
(***************************************************************************)
MaxDim == 2
MaxFrames == 2

(***************************************************************************)
(* Constants of the program.                                               *)
(***************************************************************************)
I16Max == 32767
I16Min == -32768
RatesVersion == 73
PerMinute == 60

(***************************************************************************)
(* Natural numbers of arbitrary size: little-endian digit sequences in     *)
(* base BigBase without leading zero digits; <<>> is zero.                 *)
(***************************************************************************)
BigBase == 100 * 100

RECURSIVE BigFromNat(_)
BigFromNat(n) ==
    IF n = 0 THEN <<>> ELSE <<n % BigBase>> \o BigFromNat(n \div BigBase)

RECURSIVE BigAddC(_, _, _)
BigAddC(a, b, c) ==
    IF a = <<>> /\ b = <<>>
    THEN (IF c = 0 THEN <<>> ELSE <<c>>)
    ELSE LET x == IF a = <<>> THEN 0 ELSE Head(a)
             y == IF b = <<>> THEN 0 ELSE Head(b)
             s == x + y + c
         IN  <<s % BigBase>> \o BigAddC(IF a = <<>> THEN a ELSE Tail(a),
                                        IF b = <<>> THEN b ELSE Tail(b),
                                        s \div BigBase)

BigAdd(a, b) == BigAddC(a, b, 0)

RECURSIVE BigStrip(_)
BigStrip(a) ==
    IF a = <<>> THEN a
    ELSE IF a[Len(a)] = 0 THEN BigStrip(SubSeq(a, 1, Len(a) - 1)) ELSE a

RECURSIVE BigSubB(_, _, _)
\* a - b - borrow for a >= b + borrow, digit by digit (not yet stripped)
BigSubB(a, b, w) ==
    IF a = <<>> THEN <<>>
    ELSE LET y == IF b = <<>> THEN 0 ELSE Head(b)
             t == Head(a) - y - w
         IN  <<IF t < 0 THEN t + BigBase ELSE t>>
             \o BigSubB(Tail(a), IF b = <<>> THEN b ELSE Tail(b),
                        IF t < 0 THEN 1 ELSE 0)

BigSub(a, b) == BigStrip(BigSubB(a, b, 0))

RECURSIVE BigMulD(_, _, _)
\* a * k + c for one digit k > 0
BigMulD(a, k, c) ==
    IF a = <<>> THEN BigFromNat(c)
    ELSE LET p == Head(a) * k + c
         IN  <<p % BigBase>> \o BigMulD(Tail(a), k, p \div BigBase)

BigShift(a) == IF a = <<>> THEN a ELSE <<0>> \o a

RECURSIVE BigMul(_, _)
BigMul(a, b) ==
    IF a = <<>> \/ b = <<>> THEN <<>>
    ELSE IF b = <<1>> THEN a
    ELSE IF a = <<1>> THEN b
    ELSE BigAdd(IF Head(b) = 0 THEN <<>> ELSE BigMulD(a, Head(b), 0),
                BigShift(BigMul(a, Tail(b))))

RECURSIVE BigLessAt(_, _, _)
BigLessAt(a, b, i) ==
    IF i = 0 THEN FALSE
    ELSE IF a[i] # b[i] THEN a[i] < b[i] ELSE BigLessAt(a, b, i - 1)

BigLess(a, b) ==
    IF Len(a) # Len(b) THEN Len(a) < Len(b) ELSE BigLessAt(a, b, Len(a))

(***************************************************************************)
(* Floating-point values: k = "fin" (s * n / d with s the sign, n and d    *)
(* big naturals, d > 0), "nan", or "inf" (s = 1 or -1).                    *)
(***************************************************************************)
BigOne == <<1>>
NaN == [k |-> "nan", s |-> 0, n |-> <<>>, d |-> BigOne]
Inf(sg) == [k |-> "inf", s |-> sg, n |-> <<>>, d |-> BigOne]
Zero == [k |-> "fin", s |-> 0, n |-> <<>>, d |-> BigOne]
Fin(sg, num, den) ==
    IF sg = 0 \/ num = <<>> THEN Zero
    ELSE [k |-> "fin", s |-> sg, n |-> num, d |-> den]

Abs(i) == IF i < 0 THEN -i ELSE i
Sgn(i) == IF i < 0 THEN -1 ELSE IF i = 0 THEN 0 ELSE 1

\* the value p / q of two integers, q > 0
Frac(p, q) == Fin(Sgn(p), BigFromNat(Abs(p)), BigFromNat(q))
Num(i) == Frac(i, 1)

IsNaN(x) == x.k = "nan"
IsFinite(x) == x.k = "fin"

\* the sign used for an infinite quotient or product: a zero counts as +0
SgnZ(x) == IF x.s < 0 THEN -1 ELSE 1

VMul(x, y) ==
    IF IsNaN(x) \/ IsNaN(y) THEN NaN
    ELSE IF x.k = "inf" \/ y.k = "inf"
         THEN (IF x.s = 0 \/ y.s = 0 THEN NaN ELSE Inf(x.s * y.s))
         ELSE Fin(x.s * y.s, BigMul(x.n, y.n), BigMul(x.d, y.d))

VDiv(x, y) ==
    IF IsNaN(x) \/ IsNaN(y) THEN NaN
    ELSE IF x.k = "inf"
         THEN (IF y.k = "inf" THEN NaN ELSE Inf(x.s * SgnZ(y)))
         ELSE IF y.k = "inf" THEN Zero
         ELSE IF y.s = 0
              THEN (IF x.s = 0 THEN NaN ELSE Inf(x.s))
              ELSE Fin(x.s * y.s, BigMul(x.n, y.d), BigMul(x.d, y.n))

VNeg(x) == IF IsFinite(x) THEN Fin(-x.s, x.n, x.d)
           ELSE IF IsNaN(x) THEN NaN ELSE Inf(-x.s)

\* x + y
VAdd(x, y) ==
    IF IsNaN(x) \/ IsNaN(y) THEN NaN
    ELSE IF x.k = "inf"
         THEN (IF y.k = "inf" /\ y.s # x.s THEN NaN ELSE x)
         ELSE IF y.k = "inf" THEN y
         ELSE IF x.s = 0 THEN y
         ELSE IF y.s = 0 THEN x
         ELSE LET a == BigMul(x.n, y.d)
                  b == BigMul(y.n, x.d)
                  den == BigMul(x.d, y.d)
              IN  IF x.s = y.s THEN Fin(x.s, BigAdd(a, b), den)
                  ELSE IF a = b THEN Zero
                  ELSE IF BigLess(a, b) THEN Fin(y.s, BigSub(b, a), den)
                  ELSE Fin(x.s, BigSub(a, b), den)

VSub(x, y) == VAdd(x, VNeg(y))

\* x < y; false when either is NaN
VLess(x, y) ==
    IF IsNaN(x) \/ IsNaN(y) THEN FALSE
    ELSE IF x.k = "inf" THEN x.s < 0 /\ ~(y.k = "inf" /\ y.s < 0)
    ELSE IF y.k = "inf" THEN y.s > 0
    ELSE IF x.s # y.s THEN x.s < y.s
    ELSE IF x.s = 0 THEN FALSE
    ELSE LET a == BigMul(x.n, y.d)
             b == BigMul(y.n, x.d)
         IN  IF x.s > 0 THEN BigLess(a, b) ELSE BigLess(b, a)

\* numerical equality; false when either is NaN
VEq(x, y) ==
    /\ ~IsNaN(x) /\ ~IsNaN(y)
    /\ ~VLess(x, y) /\ ~VLess(y, x)

VLeq(x, y) == VLess(x, y) \/ VEq(x, y)

(***************************************************************************)
(* Arrays.  A 4-D array is [shape |-> <<X, Y, Z, F>>, v |-> values by      *)
(* index <<x, y, z, f>>], indices from 0 as in numpy; a 3-D slab likewise. *)
(***************************************************************************)
Idx(n) == 0 .. (n - 1)
Pos4(sh) == Idx(sh[1]) \X Idx(sh[2]) \X Idx(sh[3]) \X Idx(sh[4])
Pos3(sh) == Idx(sh[1]) \X Idx(sh[2]) \X Idx(sh[3])
NoneV == [none |-> TRUE]

\* numpy.zeros(shape)
Zeros(sh) == [shape |-> sh, v |-> [p \in Pos4(sh) |-> Zero]]

\* a[:, :, :, index]
Slab(a, index) ==
    [shape |-> <<a.shape[1], a.shape[2], a.shape[3]>>,
     v |-> [p \in Pos3(a.shape) |-> a.v[<<p[1], p[2], p[3], index>>]]]

\* slab * factor, element by element
SlabTimes(sl, factor) ==
    [shape |-> sl.shape, v |-> [p \in DOMAIN sl.v |-> VMul(sl.v[p], factor)]]

\* numpy.flip(slab, axis): the order of the elements along one axis reversed
FlipAxis(sl, axis) ==
    [shape |-> sl.shape,
     v |-> [p \in DOMAIN sl.v |->
              sl.v[[p EXCEPT ![axis + 1] = sl.shape[axis + 1] - 1 - p[axis + 1]]]]]

\* numpy's rule for assigning a slab to a 3-D target: every dimension equal
\* to the target's or 1
Broadcasts(from, to) == \A a \in 1..3 : from[a] = to[a] \/ from[a] = 1

\* a[:, :, :, index] = slab, with the slab stretched along its dimensions of 1
WithSlab(a, index, sl) ==
    [shape |-> a.shape,
     v |-> [p \in DOMAIN a.v |->
              IF p[4] = index
              THEN sl.v[<<IF sl.shape[1] = 1 THEN 0 ELSE p[1],
                          IF sl.shape[2] = 1 THEN 0 ELSE p[2],
                          IF sl.shape[3] = 1 THEN 0 ELSE p[3]>>]
              ELSE a.v[p]]]

\* the index of the k-th element in storage order, k from 0
PosOf(sh, k) ==
    <<k % sh[1], (k \div sh[1]) % sh[2], (k \div (sh[1] * sh[2])) % sh[3],
      k \div (sh[1] * sh[2] * sh[3])>>
Size(sh) == sh[1] * sh[2] * sh[3] * sh[4]

\* ndarray.max() and ndarray.min(): NaN if any element is NaN, else the
\* largest (smallest) element, found in one pass over the elements
RECURSIVE MaxFrom(_, _, _)
MaxFrom(a, k, best) ==
    IF k = Size(a.shape) THEN best
    ELSE LET x == a.v[PosOf(a.shape, k)]
         IN  MaxFrom(a, k + 1,
                     IF IsNaN(best) \/ IsNaN(x) THEN NaN
                     ELSE IF VLess(best, x) THEN x ELSE best)

RECURSIVE MinFrom(_, _, _)
MinFrom(a, k, best) ==
    IF k = Size(a.shape) THEN best
    ELSE LET x == a.v[PosOf(a.shape, k)]
         IN  MinFrom(a, k + 1,
                     IF IsNaN(best) \/ IsNaN(x) THEN NaN
                     ELSE IF VLess(x, best) THEN x ELSE best)

ArrayMax(a) == MaxFrom(a, 1, a.v[PosOf(a.shape, 0)])
ArrayMin(a) == MinFrom(a, 1, a.v[PosOf(a.shape, 0)])

\* array / scalar and array * scalar
ArrayDiv(a, x) == [shape |-> a.shape, v |-> [p \in DOMAIN a.v |-> VDiv(a.v[p], x)]]
ArrayMul(a, x) == [shape |-> a.shape, v |-> [p \in DOMAIN a.v |-> VMul(a.v[p], x)]]

(***************************************************************************)
(* The inputs of a call.  A call is ecat2nii(ecat_main_header,             *)
(* ecat_subheaders, ecat_pixel_data, ecat_file, nifti_file, affine,        *)
(* TimeZero=...).  An argument that the function only type-tests is kept   *)
(* as its kind; the scan itself (what the three parsed arguments hold, or  *)
(* what read_ecat returns for ecat_file) is `source'.                      *)
(***************************************************************************)
NonePath == [none |-> TRUE, stem |-> "", ext |-> ""]
EmptyPath == [none |-> FALSE, stem |-> "", ext |-> ""]
Path(stem, ext) == [none |-> FALSE, stem |-> stem, ext |-> ext]

EcatFiles == {NonePath, EmptyPath, Path("scan", ".v")}
NiftiFiles == {EmptyPath, Path("out", ".nii")}
HeaderKinds == {"None", "dict", "str"}
SubheaderKinds == {"None", "list", "str"}
PixelKinds == {"None", "ndarray", "str"}

ArgSets ==
    [ecat_main_header : HeaderKinds, ecat_subheaders : SubheaderKinds,
     ecat_pixel_data : PixelKinds, ecat_file : EcatFiles,
     nifti_file : NiftiFiles, affine : {"None", "given"},
     TimeZero : {"absent", "given"}, save_binary : {FALSE}]

Shapes == (1..MaxDim) \X (1..MaxDim) \X (1..MaxDim) \X (1..MaxFrames)

\* the position of an element in the array's storage order
Lin(sh, p) == p[1] + sh[1] * (p[2] + sh[2] * (p[3] + sh[3] * p[4]))

\* an array of the given shape filled with the palette's values in turn
DataOf(sh, pal) ==
    [shape |-> sh, v |-> [p \in Pos4(sh) |-> pal[(Lin(sh, p) % Len(pal)) + 1]]]

DefaultPalette == <<Num(1), Num(2), Num(3)>>
Palettes ==
    { <<Zero, Zero>>, <<Zero, Num(-1)>>, <<Num(3), Num(-1)>>, <<Num(5), Num(5)>>,
      <<Num(-1), Num(-2)>>, <<Num(1), Num(-2000000000)>>,
      <<Num(-1), Num(-2000000000)>>, <<Num(10000), Num(-40000)>>,
      <<NaN, Num(1)>>, <<Num(1), Inf(1)>>, <<Inf(-1), Num(2)>> }

\* per-frame fields of the sub-headers, by profile and frame index
ScaleFactorOf(prof, i) ==
    CASE prof = "unit" -> Num(1)
      [] prof = "ramp" -> Num(i + 2)
      [] prof = "half" -> Frac(1, 2)
      [] prof = "zero" -> Zero
SubProfiles == {"unit", "ramp", "half", "zero"}

SubHeader(hs, prof, i) ==
    [X_DIMENSION |-> hs[1], Y_DIMENSION |-> hs[2], Z_DIMENSION |-> hs[3],
     X_PIXEL_SIZE |-> Num(2), Y_PIXEL_SIZE |-> Num(2), Z_PIXEL_SIZE |-> Frac(5, 2),
     SCALE_FACTOR |-> ScaleFactorOf(prof, i),
     FRAME_START_TIME |-> 2 * i, FRAME_DURATION |-> i + 1,
     PROMPT_RATE |-> 5 + i, RANDOM_RATE |-> 1 + i]

\* main_header.get('SW_VERSION', 0) reads SW_VERSION only when the key is there
MainProfiles ==
    { [has_SW_VERSION |-> FALSE, SW_VERSION |-> 0, calibration |-> Num(1)],
      [has_SW_VERSION |-> TRUE, SW_VERSION |-> 72, calibration |-> Num(2)],
      [has_SW_VERSION |-> TRUE, SW_VERSION |-> 73, calibration |-> Frac(3, 2)] }
DefaultMain == [has_SW_VERSION |-> TRUE, SW_VERSION |-> 73, calibration |-> Frac(3, 2)]

Scan(hs, ts, nsub, pal, prof, mp) ==
    [main_header |-> [NUM_FRAMES |-> hs[4],
                      has_SW_VERSION |-> mp.has_SW_VERSION,
                      SW_VERSION |-> mp.SW_VERSION,
                      ECAT_CALIBRATION_FACTOR |-> mp.calibration],
     sub_headers |-> [i \in 1..nsub |-> SubHeader(hs, prof, i - 1)],
     data |-> DataOf(ts, pal)]

\* every pair of declared and actual shape, with one sub-header and with
\* MaxFrames of them, each frame with its own scale factor
ShapeScans ==
    { Scan(hs, ts, nsub, DefaultPalette, "ramp", DefaultMain) :
        hs \in Shapes, ts \in Shapes, nsub \in {1, MaxFrames} }

\* arrays of the declared shape, one voxel per plane (Y = Z = 1): every
\* palette, and every scale profile and main header on two palettes
ThinShapes == {hs \in Shapes : hs[2] = 1 /\ hs[3] = 1}
ValueScans ==
    { Scan(hs, hs, hs[4], pal, "unit", DefaultMain) :
        hs \in ThinShapes, pal \in Palettes }
    \cup
    { Scan(hs, hs, hs[4], pal, prof, mp) :
        hs \in ThinShapes, pal \in {DefaultPalette, <<Num(3), Num(-1)>>},
        prof \in SubProfiles, mp \in MainProfiles }

\* one array per thin shape and main header, for the calls that differ in
\* the options only
OptionScans ==
    { Scan(hs, hs, hs[4], DefaultPalette, "ramp", mp) :
        hs \in ThinShapes, mp \in MainProfiles }

Scans == ShapeScans \cup ValueScans
DefaultScan == Scan(<<1, 1, 1, 1>>, <<1, 1, 1, 1>>, 1, DefaultPalette, "unit", DefaultMain)

(***************************************************************************)
(* The state of one call.                                                  *)
(***************************************************************************)
VARIABLES
    pc,                 \* the block of the function about to run
    args, source,       \* the arguments of the call and the scan they carry
    nifti_file,         \* the output path
    main_header, sub_headers, data,
    advisory,           \* the TimeZero message has been printed
    img_shape, shape_from_headers, single_frame,
    img_temp, start, delta, prompts, randoms, index,
    max_image, min_image, sca, properly_scaled,
    img_nii,            \* the image object: header and data
    files,              \* the paths written
    ret,                \* the value returned
    err,                \* the exception raised, "" if none
    stages,             \* history: the blocks completed, in order
    frame_scaled,       \* history: img_temp as the per-frame loop left it
    sched,              \* the calls of the process other than the running one
    pmod_to_blood       \* the PmodToBlood object under construction

vars == <<pc, args, source, nifti_file, main_header, sub_headers, data, advisory,
          img_shape, shape_from_headers, single_frame, img_temp, start, delta,
          prompts, randoms, index, max_image, min_image, sca, properly_scaled,
          img_nii, files, ret, err, stages, frame_scaled, sched,
          pmod_to_blood>>

inputVars == <<args, source>>
parsedVars == <<main_header, sub_headers, data>>
shapeVars == <<img_shape, shape_from_headers, single_frame>>
frameVars == <<img_temp, start, delta, prompts, randoms, index>>
rescaleVars == <<max_image, min_image, sca, properly_scaled, frame_scaled>>
outVars == <<img_nii, files, ret>>

\* a process that has made no call yet: no call is suspended (other) and
\* no call has run alone (called: its arguments, alone: its outcome); phase
\* and self tell whether one call runs alone (R) or two interleave (A and
\* B); mixed is history: a call was suspended between two of its blocks
\* while the other call was under way
Solo ==
    [phase |-> "solo", self |-> "R", other |-> NoneV, alone |-> NoneV,
     called |-> NoneV, mixed |-> FALSE]

Init ==
    /\ pc = "idle"
    /\ args = NoneV /\ source = NoneV
    /\ nifti_file = NonePath
    /\ main_header = NoneV /\ sub_headers = <<>> /\ data = NoneV
    /\ advisory = FALSE
    /\ img_shape = <<>> /\ shape_from_headers = <<>> /\ single_frame = FALSE
    /\ img_temp = NoneV /\ start = <<>> /\ delta = <<>>
    /\ prompts = <<>> /\ randoms = <<>> /\ index = 0
    /\ max_image = NoneV /\ min_image = NoneV /\ sca = NoneV
    /\ properly_scaled = NoneV /\ frame_scaled = NoneV
    /\ img_nii = NoneV /\ files = {} /\ ret = NoneV
    /\ err = "" /\ stages = <<>>
    /\ sched = Solo
    /\ pmod_to_blood = NoneV

\* raise: the call ends with the exception
Raise(e) == pc' = "error" /\ err' = e /\ UNCHANGED stages
\* go on with block `next', having completed block `done'
Goto(done, next) == pc' = next /\ err' = "" /\ stages' = Append(stages, done)

(***************************************************************************)
(* ecat2nii, lines 19-38: the output path and the two ways to pass a scan. *)
(***************************************************************************)
\* lines 27-33: which branch takes the arguments
SourceBranch(a) ==
    IF /\ a.ecat_main_header = "None" /\ a.ecat_subheaders = "None"
       /\ a.ecat_pixel_data = "None"
       /\ ~a.ecat_file.none /\ a.ecat_file # EmptyPath
    THEN "read_ecat"
    ELSE IF /\ a.ecat_file.none /\ a.ecat_main_header = "dict"
            /\ a.ecat_subheaders = "list" /\ a.ecat_pixel_data = "ndarray"
         THEN "parsed"
         ELSE "invalid"

\* the scans tried with the arguments `a': none matters when the arguments
\* are rejected; every scan is tried with the parsed structures and one
\* choice of the options (affine, TimeZero), which neither the shape check
\* nor the arithmetic reads; every other valid call is tried with the
\* option scans
ScansFor(a) ==
    IF SourceBranch(a) = "invalid" THEN {DefaultScan}
    ELSE IF SourceBranch(a) = "parsed" /\ a.affine = "None" /\ a.TimeZero = "given"
         THEN Scans
         ELSE OptionScans

\* the call: the arguments, and the scan when the arguments carry one
Call ==
    /\ pc = "idle"
    /\ \E a \in ArgSets :
         \E s \in ScansFor(a) :
            /\ args' = a
            /\ source' = s
    /\ pc' = "path"
    /\ UNCHANGED <<sched, pmod_to_blood, nifti_file, parsedVars, advisory, shapeVars, frameVars,
                   rescaleVars, outVars, err, stages>>

\* lines 19-24: os.path.splitext(None) raises TypeError
DerivePath ==
    /\ pc = "path"
    /\ IF args.nifti_file = EmptyPath
       THEN IF args.ecat_file.none
            THEN Raise("TypeError") /\ UNCHANGED nifti_file
            ELSE /\ nifti_file' = Path(args.ecat_file.stem, ".nii")
                 /\ Goto("path", "inputs")
       ELSE /\ nifti_file' = args.nifti_file
            /\ Goto("path", "inputs")
    /\ UNCHANGED <<sched, pmod_to_blood, inputVars, parsedVars, advisory, shapeVars, frameVars,
                   rescaleVars, outVars>>

\* lines 27-38
ResolveInputs ==
    /\ pc = "inputs"
    /\ IF SourceBranch(args) = "invalid"
       THEN Raise("InvalidInputCombination") /\ UNCHANGED parsedVars
       ELSE /\ main_header' = source.main_header
            /\ sub_headers' = source.sub_headers
            /\ data' = source.data
            /\ Goto("inputs", "timezero")
    /\ UNCHANGED <<sched, pmod_to_blood, inputVars, nifti_file, advisory, shapeVars, frameVars,
                   rescaleVars, outVars>>

\* the test of TimeZero, had it raised when TimeZero is missing
CheckTimeZeroStrict ==
    /\ pc = "timezero"
    /\ advisory' = (args.TimeZero = "absent")
    /\ IF args.TimeZero = "absent"
       THEN Raise("MissingTimeZero")
       ELSE Goto("timezero", "shape")
    /\ UNCHANGED <<sched, pmod_to_blood, inputVars, nifti_file, parsedVars, shapeVars, frameVars,
                   rescaleVars, outVars>>

\* lines 41-45: a message when TimeZero is missing, nothing else
CheckTimeZero ==
    /\ pc = "timezero"
    /\ advisory' = (args.TimeZero = "absent")
    /\ Goto("timezero", "shape")
    /\ UNCHANGED <<sched, pmod_to_blood, inputVars, nifti_file, parsedVars, shapeVars, frameVars,
                   rescaleVars, outVars>>

(***************************************************************************)
(* Lines 47-61: the shape check.                                           *)
(***************************************************************************)
ShapeFromHeaders(mh, sh) ==
    <<sh[1].X_DIMENSION, sh[1].Y_DIMENSION, sh[1].Z_DIMENSION, mh.NUM_FRAMES>>

\* the exemption, had it compared all three spatial dimensions
SingleFrameAllSpatial(shape, declared) ==
    shape[4] = 1 /\ SubSeq(shape, 1, 3) = SubSeq(declared, 1, 3)

\* line 56
SingleFrame(shape, declared) ==
    shape[4] = 1 /\ SubSeq(shape, 1, 2) = SubSeq(declared, 1, 2)

\* the rejection, had it compared the numbers of elements
ShapeRejectedBySize(shape, declared, single) ==
    Size(shape) # Size(declared) /\ ~single

\* line 58
ShapeRejected(shape, declared, single) == shape # declared /\ ~single

ShapeCheck ==
    /\ pc = "shape"
    /\ img_shape' = data.shape
    /\ shape_from_headers' = ShapeFromHeaders(main_header, sub_headers)
    /\ single_frame' = SingleFrame(img_shape', shape_from_headers')
    /\ IF ShapeRejected(img_shape', shape_from_headers', single_frame')
       THEN Raise("ShapeMismatch")
       ELSE Goto("shape", "alloc")
    /\ UNCHANGED <<sched, pmod_to_blood, inputVars, nifti_file, parsedVars, advisory, frameVars,
                   rescaleVars, outVars>>

(***************************************************************************)
(* Lines 63-91: the per-frame loop.                                        *)
(***************************************************************************)
\* lines 64-74
AllocFrames ==
    /\ pc = "alloc"
    /\ img_temp' = Zeros(ShapeFromHeaders(main_header, sub_headers))
    /\ start' = <<>> /\ delta' = <<>> /\ prompts' = <<>> /\ randoms' = <<>>
    /\ index' = 0
    /\ Goto("alloc", IF img_shape[4] = 0 THEN "rescale" ELSE "loop")
    /\ UNCHANGED <<sched, pmod_to_blood, inputVars, nifti_file, parsedVars, advisory, shapeVars,
                   rescaleVars, outVars>>

\* the frame, had it been flipped along axes 1 and 2 only
ScaledFlippedTwice(d, i, factor) ==
    FlipAxis(FlipAxis(SlabTimes(Slab(d, i), factor), 1), 2)

\* lines 79-80, right-hand side: the frame scaled, then flipped along axis 1,
\* axis 2 and axis 0
ScaledFlipped(d, i, factor) ==
    FlipAxis(FlipAxis(FlipAxis(SlabTimes(Slab(d, i), factor), 1), 2), 0)

\* the version from which the rates are read, had it been excluded
PromptsAboveVersion(mh, sh) ==
    IF (IF mh.has_SW_VERSION THEN mh.SW_VERSION ELSE 0) > RatesVersion
    THEN sh.PROMPT_RATE * sh.FRAME_DURATION * PerMinute
    ELSE 0

\* lines 84-91
Prompts(mh, sh) ==
    IF (IF mh.has_SW_VERSION THEN mh.SW_VERSION ELSE 0) >= RatesVersion
    THEN sh.PROMPT_RATE * sh.FRAME_DURATION * PerMinute
    ELSE 0
Randoms(mh, sh) ==
    IF (IF mh.has_SW_VERSION THEN mh.SW_VERSION ELSE 0) >= RatesVersion
    THEN sh.RANDOM_RATE * sh.FRAME_DURATION * PerMinute
    ELSE 0

\* one iteration of the loop of lines 77-91, frame `index'
LoadFrame ==
    /\ pc = "loop"
    /\ IF index >= Len(sub_headers)
       THEN Raise("IndexError") /\ UNCHANGED frameVars
       ELSE LET sh == sub_headers[index + 1]
                slab == ScaledFlipped(data, index, sh.SCALE_FACTOR)
                target == SubSeq(img_temp.shape, 1, 3)
            IN  IF index >= img_temp.shape[4]
                THEN Raise("IndexError") /\ UNCHANGED frameVars
                ELSE IF ~Broadcasts(slab.shape, target)
                THEN Raise("ValueError") /\ UNCHANGED frameVars
                ELSE /\ img_temp' = WithSlab(img_temp, index, slab)
                     /\ start' = Append(start, sh.FRAME_START_TIME * PerMinute)
                     /\ delta' = Append(delta, sh.FRAME_DURATION * PerMinute)
                     /\ prompts' = Append(prompts, Prompts(main_header, sh))
                     /\ randoms' = Append(randoms, Randoms(main_header, sh))
                     /\ index' = index + 1
                     /\ Goto("frame", IF index + 1 < img_shape[4]
                                      THEN "loop" ELSE "rescale")
    /\ UNCHANGED <<sched, pmod_to_blood, inputVars, nifti_file, parsedVars, advisory, shapeVars,
                   rescaleVars, outVars>>

(***************************************************************************)
(* Lines 93-102: the rescale.  No statement of it raises: a division by    *)
(* zero of numpy floats gives NaN or an infinity.                          *)
(***************************************************************************)
\* the first pass, had it divided by 32767 alone
FirstPassNoMax(img) ==
    LET mx == ArrayMax(img)
    IN  [img |-> ArrayDiv(img, Num(I16Max)),
         sca |-> VDiv(mx, Num(I16Max)),
         max_image |-> mx]

\* lines 94-96
FirstPass(img) ==
    LET mx == ArrayMax(img)
    IN  [img |-> ArrayDiv(img, VMul(mx, Num(I16Max))),
         sca |-> VDiv(mx, Num(I16Max)),
         max_image |-> mx]

\* line 98
SecondPassNeeded(mn) == VLess(mn, Num(I16Min))

\* the second pass, had it left the array as it was
SecondPassSkipped(r, mn) == r

\* lines 99-100
SecondPass(r, mn) ==
    [img |-> ArrayDiv(r.img, VMul(mn, Num(I16Min))),
     sca |-> VDiv(VMul(r.sca, mn), Num(I16Min)),
     max_image |-> r.max_image]

\* lines 94-100
IntensityRescale(img) ==
    LET first == FirstPass(img)
        mn == ArrayMin(first.img)
        r == IF SecondPassNeeded(mn) THEN SecondPass(first, mn) ELSE first
    IN  [img |-> r.img, sca |-> r.sca, max_image |-> r.max_image,
         min_image |-> mn]

\* the final array, had the calibration factor been left out
ProperlyScaledNoCalibration(img, s, mh) == ArrayMul(img, s)

\* line 102
ProperlyScaled(img, s, mh) ==
    ArrayMul(ArrayMul(img, s), mh.ECAT_CALIBRATION_FACTOR)

Rescale ==
    /\ pc = "rescale"
    /\ LET r == IntensityRescale(img_temp)
       IN  /\ frame_scaled' = img_temp
           /\ img_temp' = r.img
           /\ sca' = r.sca
           /\ max_image' = r.max_image
           /\ min_image' = r.min_image
           /\ properly_scaled' = ProperlyScaled(r.img, r.sca, main_header)
    /\ Goto("rescale", "image")
    /\ UNCHANGED <<sched, pmod_to_blood, inputVars, nifti_file, parsedVars, advisory, shapeVars,
                   start, delta, prompts, randoms, index, outVars>>

(***************************************************************************)
(* Lines 104-187: the image object, its header fields, the file, the       *)
(* returned value.  The header is a structure with the fixed fields of     *)
(* NIfTI-1: img_nii.header[name] = value raises ValueError when `name' is  *)
(* not one of them.                                                        *)
(***************************************************************************)
NiftiFields ==
    {"sizeof_hdr", "data_type", "db_name", "extents", "session_error", "regular",
     "dim_info", "dim", "intent_p1", "intent_p2", "intent_p3", "intent_code",
     "datatype", "bitpix", "slice_start", "pixdim", "vox_offset", "scl_slope",
     "scl_inter", "slice_end", "slice_code", "xyzt_units", "cal_max", "cal_min",
     "slice_duration", "toffset", "glmax", "glmin", "descrip", "aux_file",
     "qform_code", "sform_code", "quatern_b", "quatern_c", "quatern_d",
     "qoffset_x", "qoffset_y", "qoffset_z", "srow_x", "srow_y", "srow_z",
     "intent_name", "magic"}

\* the affine of a caller who passes one
GivenAffine ==
    << <<Num(3), Zero, Zero, Num(-7)>>,
       <<Zero, Num(3), Zero, Num(-8)>>,
       <<Zero, Zero, Num(4), Num(-9)>> >>

\* line 104: a new image; its header holds the defaults, the shape of the
\* data and, when an affine is passed, the affine as sform
NewImage(arr, affine) ==
    [dataobj |-> arr,
     affine |-> affine,
     header |->
        [f \in NiftiFields |->
            CASE f = "sizeof_hdr" -> Num(348)
              [] f = "dim" -> <<4>> \o arr.shape \o <<1, 1, 1>>
              [] f = "datatype" -> Num(16)
              [] f = "bitpix" -> Num(32)
              [] f = "pixdim" ->
                    IF affine = "None"
                    THEN <<Num(1), Num(1), Num(1), Num(1), Num(1), Num(1), Num(1), Num(1)>>
                    ELSE <<Num(1), GivenAffine[1][1], GivenAffine[2][2], GivenAffine[3][3],
                           Num(1), Num(1), Num(1), Num(1)>>
              [] f \in {"scl_slope", "scl_inter"} -> NaN
              [] f \in {"descrip", "aux_file", "db_name", "intent_name", "magic", "data_type"} -> ""
              [] f = "sform_code" -> IF affine = "None" THEN Zero ELSE Num(2)
              [] f = "srow_x" -> IF affine = "None" THEN <<Zero, Zero, Zero, Zero>> ELSE GivenAffine[1]
              [] f = "srow_y" -> IF affine = "None" THEN <<Zero, Zero, Zero, Zero>> ELSE GivenAffine[2]
              [] f = "srow_z" -> IF affine = "None" THEN <<Zero, Zero, Zero, Zero>> ELSE GivenAffine[3]
              [] f = "qoffset_x" -> IF affine = "None" THEN Zero ELSE GivenAffine[1][4]
              [] f = "qoffset_y" -> IF affine = "None" THEN Zero ELSE GivenAffine[2][4]
              [] f = "qoffset_z" -> IF affine = "None" THEN Zero ELSE GivenAffine[3][4]
              [] OTHER -> Zero]]

\* the offset, had the pixel size in the subtracted term been taken in mm
QOffsetOfScaledSize(dim, size) ==
    VMul(Num(-1),
         VSub(VDiv(VMul(VMul(Num(dim), size), Num(10)), Num(2)),
              VMul(VMul(size, Num(10)), Num(5))))

\* lines 150-158: -1 * ((dim * size * 10 / 2) - size * 5)
QOffset(dim, size) ==
    VMul(Num(-1),
         VSub(VDiv(VMul(VMul(Num(dim), size), Num(10)), Num(2)),
              VMul(size, Num(5))))

\* cal_max, had it been given the maximum
CalMaxAsMaximum(arr) == ArrayMax(arr)

\* line 134: cal_max is given the minimum of the final array
CalMax(arr) == ArrayMin(arr)
\* line 135: cal_min is given the maximum of the final array
CalMin(arr) == ArrayMax(arr)

\* the right-hand side of the assignment to header field `name' (lines
\* 106-161), given the header so far, SubHeader[0] and the final array
AssignedValue(name, hdr, sh0, arr) ==
    CASE name = "sizeof_hdr" -> Num(348)
      [] name = "pixdim" ->
            <<Num(1), VMul(sh0.X_PIXEL_SIZE, Num(10)), VMul(sh0.Y_PIXEL_SIZE, Num(10)),
              VMul(sh0.Z_PIXEL_SIZE, Num(10)), Zero, Zero, Zero, Zero>>
      [] name = "vox_offset" -> Num(352)
      [] name = "xyzt_units" -> Num(10)
      [] name = "cal_max" -> CalMax(arr)
      [] name = "cal_min" -> CalMin(arr)
      [] name = "descrip" -> "OpenNeuroPET ecat2nii.py conversion"
      [] name = "sform_code" -> Num(1)
      [] name = "qoffset_x" -> QOffset(sh0.X_DIMENSION, sh0.X_PIXEL_SIZE)
      [] name = "qoffset_y" -> QOffset(sh0.Y_DIMENSION, sh0.Y_PIXEL_SIZE)
      [] name = "qoffset_Z" -> QOffset(sh0.Z_DIMENSION, sh0.Z_PIXEL_SIZE)
      [] name = "srow_x" ->
            <<VMul(sh0.X_PIXEL_SIZE, Num(10)), Zero, Zero, hdr["qoffset_x"]>>
      [] name = "srow_y" ->
            <<Zero, VMul(sh0.Y_PIXEL_SIZE, Num(10)), Zero, hdr["qoffset_y"]>>
      [] name = "srow_z" ->
            <<Zero, Zero, VMul(sh0.Z_PIXEL_SIZE, Num(10)), hdr["qoffset_z"]>>
      [] OTHER -> Zero

\* the tail, had it saved the image before filling in the header
TailProgramSaveFirst ==
    <<"save", "sizeof_hdr", "intent_p1", "intent_p2", "intent_p3", "pixdim",
      "vox_offset", "scl_inter", "slice_end", "slice_code", "xyzt_units", "cal_max",
      "cal_min", "slice_duration", "toffset", "descrip", "qform_code", "sform_code",
      "quatern_b", "quatern_c", "quatern_d", "qoffset_x", "qoffset_y", "qoffset_Z",
      "srow_x", "srow_y", "srow_z", "set_xyzt_units", "pickle", "return">>

\* the statements of lines 106-187 in order: the header fields assigned,
\* then set_xyzt_units, nibabel.save, pickle.dump and return
TailProgram ==
    <<"sizeof_hdr", "intent_p1", "intent_p2", "intent_p3", "pixdim", "vox_offset",
      "scl_inter", "slice_end", "slice_code", "xyzt_units", "cal_max", "cal_min",
      "slice_duration", "toffset", "descrip", "qform_code", "sform_code",
      "quatern_b", "quatern_c", "quatern_d", "qoffset_x", "qoffset_y", "qoffset_Z",
      "srow_x", "srow_y", "srow_z",
      "set_xyzt_units", "save", "pickle", "return">>

File(path, suffix) == [path |-> path, suffix |-> suffix]

\* one statement of the tail; st is [hdr, files, err, returned, stages]
ExecTail(stmt, st, sh0, arr, path, save_binary) ==
    CASE stmt = "set_xyzt_units" ->                         \* line 174: mm, unknown
            [st EXCEPT !.hdr["xyzt_units"] = Num(2),
                       !.stages = Append(@, "header")]
      [] stmt = "save" ->                                   \* line 177
            [st EXCEPT !.files = @ \cup {File(path, "")},
                       !.stages = Append(@, "write")]
      [] stmt = "pickle" ->                                 \* lines 180-181
            IF save_binary
            THEN [st EXCEPT !.files = @ \cup {File(path, ".pickle")}]
            ELSE st
      [] stmt = "return" ->                                 \* line 187
            [st EXCEPT !.returned = TRUE]
      [] OTHER ->
            IF stmt \in NiftiFields
            THEN [st EXCEPT !.hdr[stmt] = AssignedValue(stmt, st.hdr, sh0, arr)]
            ELSE [st EXCEPT !.err = "ValueError"]

\* the statements from the i-th on, until one raises
RECURSIVE RunTail(_, _, _, _, _, _, _)
RunTail(prog, i, st, sh0, arr, path, save_binary) ==
    IF i > Len(prog) \/ st.err # "" \/ st.returned THEN st
    ELSE RunTail(prog, i + 1, ExecTail(prog[i], st, sh0, arr, path, save_binary),
                 sh0, arr, path, save_binary)

BuildAndSave ==
    /\ pc = "image"
    /\ LET img == NewImage(properly_scaled, args.affine)
           st == RunTail(TailProgram, 1,
                         [hdr |-> img.header, files |-> files, err |-> "",
                          returned |-> FALSE, stages |-> stages],
                         sub_headers[1], properly_scaled, nifti_file,
                         args.save_binary)
       IN  /\ img_nii' = [img EXCEPT !.header = st.hdr]
           /\ files' = st.files
           /\ stages' = st.stages
           /\ err' = st.err
           /\ pc' = IF st.err # "" THEN "error" ELSE "done"
           /\ ret' = IF st.returned THEN img_nii' ELSE NoneV
    /\ UNCHANGED <<sched, pmod_to_blood, inputVars, nifti_file, parsedVars, advisory, shapeVars,
                   frameVars, rescaleVars>>

Next ==
    \/ Call \/ DerivePath \/ ResolveInputs \/ CheckTimeZero \/ ShapeCheck
    \/ AllocFrames \/ LoadFrame \/ Rescale \/ BuildAndSave

Spec == Init /\ [][Next]_vars

(***************************************************************************)
(* Several calls in one process.  Every name the function assigns is a     *)
(* local of the call (lines 9-187): the module has no global but its       *)
(* imports.  The variables above are the locals of the running call; the   *)
(* locals of a suspended call are kept in sched.other, and a switch of the *)
(* running call exchanges the two.  The calls share the file system only.  *)
(* A first call runs alone and its outcome is kept; then a call with the   *)
(* same arguments (TimeZero apart) runs interleaved with another call.     *)
(***************************************************************************)
LocalState ==
    [pc |-> pc, args |-> args, source |-> source, nifti_file |-> nifti_file,
     main_header |-> main_header, sub_headers |-> sub_headers, data |-> data,
     advisory |-> advisory, img_shape |-> img_shape,
     shape_from_headers |-> shape_from_headers, single_frame |-> single_frame,
     img_temp |-> img_temp, start |-> start, delta |-> delta,
     prompts |-> prompts, randoms |-> randoms, index |-> index,
     max_image |-> max_image, min_image |-> min_image, sca |-> sca,
     properly_scaled |-> properly_scaled, img_nii |-> img_nii, ret |-> ret,
     err |-> err, stages |-> stages, frame_scaled |-> frame_scaled]

\* the locals of a call just made with arguments a that carry the scan s
Fresh(a, s) ==
    [pc |-> "path", args |-> a, source |-> s, nifti_file |-> NonePath,
     main_header |-> NoneV, sub_headers |-> <<>>, data |-> NoneV,
     advisory |-> FALSE, img_shape |-> <<>>, shape_from_headers |-> <<>>,
     single_frame |-> FALSE, img_temp |-> NoneV, start |-> <<>>, delta |-> <<>>,
     prompts |-> <<>>, randoms |-> <<>>, index |-> 0, max_image |-> NoneV,
     min_image |-> NoneV, sca |-> NoneV, properly_scaled |-> NoneV,
     img_nii |-> NoneV, ret |-> NoneV, err |-> "", stages |-> <<>>,
     frame_scaled |-> NoneV]

\* the switch, had img_temp been a buffer of the module that the calls share
ResumeSharedBuffer(l) ==
    /\ pc' = l.pc /\ args' = l.args /\ source' = l.source
    /\ nifti_file' = l.nifti_file /\ main_header' = l.main_header
    /\ sub_headers' = l.sub_headers /\ data' = l.data /\ advisory' = l.advisory
    /\ img_shape' = l.img_shape /\ shape_from_headers' = l.shape_from_headers
    /\ single_frame' = l.single_frame /\ img_temp' = img_temp
    /\ start' = l.start /\ delta' = l.delta /\ prompts' = l.prompts
    /\ randoms' = l.randoms /\ index' = l.index /\ max_image' = l.max_image
    /\ min_image' = l.min_image /\ sca' = l.sca
    /\ properly_scaled' = l.properly_scaled /\ img_nii' = l.img_nii
    /\ ret' = l.ret /\ err' = l.err /\ stages' = l.stages
    /\ frame_scaled' = l.frame_scaled

\* the call with locals l becomes the running one
Resume(l) ==
    /\ pc' = l.pc /\ args' = l.args /\ source' = l.source
    /\ nifti_file' = l.nifti_file /\ main_header' = l.main_header
    /\ sub_headers' = l.sub_headers /\ data' = l.data /\ advisory' = l.advisory
    /\ img_shape' = l.img_shape /\ shape_from_headers' = l.shape_from_headers
    /\ single_frame' = l.single_frame /\ img_temp' = l.img_temp
    /\ start' = l.start /\ delta' = l.delta /\ prompts' = l.prompts
    /\ randoms' = l.randoms /\ index' = l.index /\ max_image' = l.max_image
    /\ min_image' = l.min_image /\ sca' = l.sca
    /\ properly_scaled' = l.properly_scaled /\ img_nii' = l.img_nii
    /\ ret' = l.ret /\ err' = l.err /\ stages' = l.stages
    /\ frame_scaled' = l.frame_scaled

\* what a call with locals l has produced: how it ended, the image with its
\* header, the arrays and the timing sequences
Outcome(l) ==
    [pc |-> l.pc, err |-> l.err, img_nii |-> l.img_nii, img_temp |-> l.img_temp,
     properly_scaled |-> l.properly_scaled, start |-> l.start, delta |-> l.delta,
     prompts |-> l.prompts, randoms |-> l.randoms, ret |-> l.ret,
     stages |-> l.stages]

\* the arguments of the interleaved calls: the parsed structures (or two of
\* them only), with the output path `out' and with or without TimeZero
PairArgs ==
    { [ecat_main_header |-> k, ecat_subheaders |-> "list",
       ecat_pixel_data |-> "ndarray", ecat_file |-> NonePath,
       nifti_file |-> Path("out", ".nii"), affine |-> "None", TimeZero |-> tz,
       save_binary |-> FALSE] :
        k \in {"dict", "None"}, tz \in {"absent", "given"} }
\* the arguments of the other call: a separate output path
OtherArgs ==
    [ecat_main_header |-> "dict", ecat_subheaders |-> "list",
     ecat_pixel_data |-> "ndarray", ecat_file |-> NonePath,
     nifti_file |-> Path("other", ".nii"), affine |-> "None",
     TimeZero |-> "given", save_binary |-> FALSE]
\* their scans: one voxel per frame, every frame count, and one scan that
\* the shape check rejects
PairScans ==
    { Scan(<<1, 1, 1, f>>, <<1, 1, 1, f>>, f, <<Num(3), Num(-1)>>, "ramp", DefaultMain) :
        f \in 1..MaxFrames }
    \cup { Scan(<<1, 1, 1, MaxFrames>>, <<2, 1, 1, MaxFrames>>, 1, DefaultPalette,
                "ramp", DefaultMain) }

\* the call that runs alone
CallAlone ==
    /\ pc = "idle" /\ sched.phase = "solo"
    /\ \E a \in PairArgs : \E s \in PairScans : Resume(Fresh(a, s))
    /\ UNCHANGED <<files, sched, pmod_to_blood>>

\* the call that ran alone has ended: the same call is made again, with or
\* without TimeZero, together with another call
CallPair ==
    /\ pc \in {"done", "error"} /\ sched.phase = "solo"
    /\ \E tz \in {"absent", "given"} : \E s \in PairScans :
          /\ Resume(Fresh([args EXCEPT !.TimeZero = tz], source))
          /\ sched' = [phase |-> "pair", self |-> "A",
                       other |-> Fresh(OtherArgs, s),
                       alone |-> Outcome(LocalState),
                       called |-> args, mixed |-> FALSE]
    /\ UNCHANGED <<files, pmod_to_blood>>

\* the running call is suspended and the other one runs
Switch ==
    /\ sched.phase = "pair"
    /\ Resume(sched.other)
    /\ sched' = [sched EXCEPT
                    !.other = LocalState,
                    !.self = IF @ = "A" THEN "B" ELSE "A",
                    !.mixed = @ \/ (/\ pc \notin {"path", "done", "error"}
                                    /\ sched.other.pc \notin {"path", "done", "error"})]
    /\ UNCHANGED <<files, pmod_to_blood>>

PairNext ==
    \/ CallAlone \/ CallPair \/ Switch
    \/ DerivePath \/ ResolveInputs \/ CheckTimeZero \/ ShapeCheck
    \/ AllocFrames \/ LoadFrame \/ Rescale \/ BuildAndSave

PairSpec == Init /\ [][PairNext]_vars

(***************************************************************************)
(* The header fields as a function of the geometry of SubHeader[0].  The   *)
(* statements of lines 106-161 read the array for cal_max and cal_min      *)
(* only; here they are run for sub-headers of scanner size over an array   *)
(* of one voxel, which a call cannot pair with them.                       *)
(***************************************************************************)
GeometryDims == {1, 2, 63, 128}
GeometrySizes == { <<Num(2), Num(2), Frac(5, 2)>>, <<Num(1), Num(1), Num(1)>> }

\* SubHeader[0] with the dimensions d and the pixel sizes px
GeometryHeader(d, px) ==
    [SubHeader(<<d[1], d[2], d[3], 1>>, "unit", 0) EXCEPT
        !.X_PIXEL_SIZE = px[1], !.Y_PIXEL_SIZE = px[2], !.Z_PIXEL_SIZE = px[3]]

SynthesizeHeader ==
    /\ pc = "idle"
    /\ \E d \in GeometryDims \X GeometryDims \X GeometryDims :
       \E px \in GeometrySizes :
          LET sh0 == GeometryHeader(d, px)
              arr == DataOf(<<1, 1, 1, 1>>, DefaultPalette)
              img == NewImage(arr, "None")
              st == RunTail(TailProgram, 1,
                            [hdr |-> img.header, files |-> files, err |-> "",
                             returned |-> FALSE, stages |-> stages],
                            sh0, arr, NonePath, FALSE)
          IN  /\ sub_headers' = <<sh0>>
              /\ img_nii' = [img EXCEPT !.header = st.hdr]
              /\ err' = st.err
              /\ pc' = IF st.err # "" THEN "error" ELSE "done"
    /\ UNCHANGED <<sched, pmod_to_blood, inputVars, nifti_file, main_header, data, advisory,
                   shapeVars, frameVars, rescaleVars, files, ret, stages>>

GeometryNext == SynthesizeHeader

GeometrySpec == Init /\ [][GeometryNext]_vars

(***************************************************************************)
(* PmodToBlood: the construction of the object, in the version of          *)
(* pypet2bids and in the version of spreadsheet_conversion.  __init__ is   *)
(* cut where it waits for input(): the loop over the loaded series         *)
(* (CollectionMethod), the answer typed (Input), the body of the while     *)
(* loop of ask_recording_type (AskRecordingType), and the three calls that *)
(* follow the loop.                                                        *)
(***************************************************************************)
MaxRows == 3

Versions == {"pypet2bids", "spreadsheet_conversion"}

\* the keys of blood_series, in the order __init__ inserts them
SeriesOrder == <<"whole_blood_activity", "parent_fraction", "plasma_activity">>
SeriesNames == {SeriesOrder[i] : i \in 1..Len(SeriesOrder)}

\* the time columns of the .bld files: n rows one unit apart, and one
\* column of two rows with another second value
TimeColumns == {[i \in 1..n |-> i - 1] : n \in 1..MaxRows} \cup {<<0, 2>>}

\* the headers of the time column are time[seconds], time[minutes] and
\* time[hours]: one that holds 'sec', one that holds 'min', one with neither
HasSec(header) == header = "time[seconds]"
HasMin(header) == header = "time[minutes]"

\* the header of the other column of each file as PMOD writes it
DataHeader(name) ==
    CASE name = "whole_blood_activity" -> "whole blood[kBq/cc]"
      [] name = "parent_fraction" -> "parent[1/1]"
      [] name = "plasma_activity" -> "plasma[kBq/cc]"

\* a loaded file: the columns and the values of the time column
DataFrame(time_header, time, data_header) ==
    [time_header |-> time_header, time |-> time, data_header |-> data_header]
Columns(dataframe) == {dataframe.time_header, dataframe.data_header}
Rows(dataframe) == IF dataframe = NoneV THEN 0 ELSE Len(dataframe.time)

BldFiles(name, headers) ==
    { DataFrame(h, t, DataHeader(name)) : h \in headers, t \in TimeColumns }

\* plasma files are taken with at least the rows of the whole blood file:
\* a shorter one with mixed sampling methods enters the de-duplication of
\* lines 453-517, which runs in helper_functions
PlasmaFiles(whole) ==
    { f \in BldFiles("plasma_activity", {"time[seconds]"}) :
        Rows(f) >= Rows(whole) }

\* the three paths of one construction: parent_fraction is loaded always
\* by spreadsheet_conversion (lines 76-77) and if it is a file by pypet2bids
\* (lines 285-286), plasma_activity if given
InputFiles(version) ==
    UNION { { [name \in SeriesNames |->
                  CASE name = "whole_blood_activity" -> w
                    [] name = "parent_fraction" -> p
                    [] name = "plasma_activity" -> q] :
                p \in BldFiles("parent_fraction", {"time[seconds]", "time[minutes]"})
                        \cup (IF version = "pypet2bids" THEN {NoneV} ELSE {}),
                q \in {NoneV} \cup PlasmaFiles(w) } :
            w \in BldFiles("whole_blood_activity",
                          {"time[seconds]", "time[minutes]", "time[hours]"}) }

\* the key-value arguments <series>_collection_method
KeyValues(paths) ==
    { kv \in [SeriesNames -> {"manual", "automatic", "None"}] :
        \A name \in SeriesNames : paths[name] = NoneV => kv[name] = "None" }

\* one file per series and one time unit, for the calls that differ in the
\* key-value arguments and the answers only
PlainFiles ==
    [name \in SeriesNames |->
        DataFrame("time[seconds]", <<0, 1>>, DataHeader(name))]

\* every loaded series has its method among the key-value arguments
AllSupplied(paths) ==
    { kv \in KeyValues(paths) :
        \A name \in SeriesNames : paths[name] # NoneV => kv[name] # "None" }

\* the constructions: every family of files with every method supplied as
\* a keyword argument, and the plain files with every choice of supplied
\* methods, passed as keyword arguments or through main()
Constructions ==
    UNION { UNION { { [version |-> v, call |-> "direct", files |-> f, items |-> kv] :
                        kv \in AllSupplied(f) } : f \in InputFiles(v) }
            \cup
            UNION { { [version |-> v, call |-> c, files |-> f, items |-> kv] :
                        c \in {"direct", "main"}, kv \in KeyValues(f) } :
                    f \in {PlainFiles, [PlainFiles EXCEPT !["plasma_activity"] = NoneV]} }
            : v \in Versions }

\* the keyword arguments as __init__ receives them: main() passes the
\* parsed pairs as the one keyword kwargs
Kwargs(call, items) == [wrapped |-> call = "main", items |-> items]

\* kwargs.get(f"{blood_sample}_collection_method", None)
KwargsGet(kwargs, blood_sample) ==
    IF kwargs.wrapped THEN "None" ELSE kwargs.items[blood_sample]

\* the loaded series in the order of the dictionary
Loaded(blood_series) ==
    SelectSeq(SeriesOrder, LAMBDA name : blood_series[name] # NoneV)

\* str.lower of an answer
Answers == {"m", "M", "a", "A", "y", "Y", "n"}
Lower(how) ==
    CASE how = "M" -> "m"
      [] how = "A" -> "a"
      [] how = "Y" -> "y"
      [] OTHER -> how

ecatVars == <<pc, args, source, nifti_file, main_header, sub_headers, data,
              advisory, img_shape, shape_from_headers, single_frame, img_temp,
              start, delta, prompts, randoms, index, max_image, min_image, sca,
              properly_scaled, img_nii, files, ret, err, stages, frame_scaled,
              sched>>

\* a path of the two .tsv files: not written, or written with the columns
NoFile == [written |-> FALSE, columns |-> {}]
ToCsv(columns) == [written |-> TRUE, columns |-> columns]

Constructing == pmod_to_blood # NoneV
At(label) == Constructing /\ pmod_to_blood.pc = label

\* __init__ up to the loop over the series: the lists, the files loaded,
\* data_collection empty
PmodToBlood ==
    /\ pmod_to_blood = NoneV
    /\ \E c \in Constructions :
          pmod_to_blood' =
            [version |-> c.version,
             kwargs |-> Kwargs(c.call, c.items),
             files |-> c.files,
             auto_sampled |-> <<>>, manually_sampled |-> <<>>,
             blood_series |-> c.files,
             data_collection |-> [name \in SeriesNames |-> "None"],
             blood_sample |-> 1,
             recording |-> "None", how |-> "None",
             asked |-> {},
             tsv |-> [manual |-> NoFile, automatic |-> NoFile],
             pc |-> "methods", err |-> ""]
    /\ UNCHANGED ecatVars

\* one pass of the loop over blood_series.keys(): the method supplied is
\* recorded, or ask_recording_type is entered and waits for input()
CollectionMethod ==
    /\ At("methods")
    /\ pmod_to_blood.blood_sample <= Len(Loaded(pmod_to_blood.blood_series))
    /\ LET name == Loaded(pmod_to_blood.blood_series)[pmod_to_blood.blood_sample]
           given == KwargsGet(pmod_to_blood.kwargs, name)
       IN  pmod_to_blood' =
             IF given = "None"
             THEN [pmod_to_blood EXCEPT !.recording = name, !.how = "None",
                                        !.asked = @ \cup {name}, !.pc = "input"]
             ELSE [pmod_to_blood EXCEPT !.data_collection[name] = given,
                                        !.blood_sample = @ + 1]
    /\ UNCHANGED ecatVars

\* input() returns one of the answers
Input(answers) ==
    /\ At("input")
    /\ \E how \in answers :
          pmod_to_blood' = [pmod_to_blood EXCEPT !.how = how, !.pc = "answered"]
    /\ UNCHANGED ecatVars

\* the method is recorded, ask_recording_type returns to the loop of
\* __init__
Answered(self, method) ==
    [self EXCEPT !.data_collection[self.recording] = method,
                 !.recording = "None", !.how = "None",
                 !.blood_sample = @ + 1, !.pc = "methods"]

\* the answer compared as typed, without str.lower
RecordedAsTyped(self) ==
    CASE self.how = "m" -> Answered(self, "manual")
      [] self.how = "a" -> Answered(self, "automatic")
      [] self.how = "y" -> Answered(self, "manual")
      [] OTHER -> [self EXCEPT !.pc = "input"]

\* the body of the while loop of ask_recording_type after input(): on any
\* other answer the message is printed and input() is called again
Recorded(self) ==
    CASE Lower(self.how) = "m" -> Answered(self, "manual")
      [] Lower(self.how) = "a" -> Answered(self, "automatic")
      [] Lower(self.how) = "y" -> Answered(self, "manual")
      [] OTHER -> [self EXCEPT !.pc = "input"]

AskRecordingType ==
    /\ At("answered")
    /\ pmod_to_blood' = Recorded(pmod_to_blood)
    /\ UNCHANGED ecatVars

\* lines 314-318 of pypet2bids: the series are listed by their method
ByMethod(self, method) ==
    LET names == SelectSeq(Loaded(self.blood_series),
                           LAMBDA name : self.data_collection[name] = method)
    IN  [k \in 1..Len(names) |-> [name |-> names[k]]]

SecondsPerMinute == 60

\* the factor for one file: spreadsheet_conversion sets it to 1.0 before
\* the loop (line 179) and to 60.0 in a file without a 'sec' header (line
\* 184); pypet2bids sets it to 1.0 for every file (line 550) and to 60.0
\* if the file has a 'min' header (lines 554-555)
TimeScalar(version, time_scalar, header) ==
    IF version = "spreadsheet_conversion"
    THEN IF HasSec(header) THEN time_scalar ELSE SecondsPerMinute
    ELSE IF ~HasSec(header) /\ HasMin(header) THEN SecondsPerMinute ELSE 1

\* the name the second column of a series is given
BidsColumn(name) ==
    CASE name = "whole_blood_activity" -> "whole_blood_radioactivity"
      [] name = "parent_fraction" -> "metabolite_parent_fraction"
      [] name = "plasma_activity" -> "plasma_radioactivity"

\* one file of the loop: the time column renamed and multiplied, the other
\* column renamed
ScaledRenamed(name, dataframe, time_scalar) ==
    DataFrame("time",
              [k \in 1..Len(dataframe.time) |-> dataframe.time[k] * time_scalar],
              BidsColumn(name))

\* the loop of scale_time_rename_columns from the i-th series on, with the
\* factor the files before it left
RECURSIVE ScaleFrom(_, _, _, _)
ScaleFrom(version, blood_series, i, time_scalar) ==
    IF i > Len(Loaded(blood_series))
    THEN [blood_series |-> blood_series, err |-> ""]
    ELSE LET name == Loaded(blood_series)[i]
             dataframe == blood_series[name]
             scalar == TimeScalar(version, time_scalar, dataframe.time_header)
         IN  IF ~(HasSec(dataframe.time_header) \/ HasMin(dataframe.time_header))
             THEN [blood_series |-> blood_series, err |-> "Exception"]
             ELSE ScaleFrom(version,
                            [blood_series EXCEPT
                                ![name] = ScaledRenamed(name, dataframe, scalar)],
                            i + 1, scalar)

\* the loop over the series has ended: the lists of pypet2bids are filled
\* and scale_time_rename_columns runs
ScaleTimeRenameColumns ==
    /\ At("methods")
    /\ pmod_to_blood.blood_sample > Len(Loaded(pmod_to_blood.blood_series))
    /\ LET self == pmod_to_blood
           listed == IF self.version = "pypet2bids"
                     THEN [self EXCEPT
                              !.manually_sampled = ByMethod(self, "manual"),
                              !.auto_sampled = ByMethod(self, "automatic")]
                     ELSE self
           scaled == ScaleFrom(self.version, self.blood_series, 1, 1)
       IN  pmod_to_blood' =
             [listed EXCEPT !.blood_series = scaled.blood_series,
                            !.err = scaled.err,
                            !.pc = IF scaled.err # "" THEN "error" ELSE "check"]
    /\ UNCHANGED ecatVars

\* the methods recorded for the loaded series
MethodsOf(self) ==
    {self.data_collection[name] : name \in
        {n \in SeriesNames : self.blood_series[n] # NoneV}}
LoadedNames(self) == {n \in SeriesNames : self.blood_series[n] # NoneV}

\* the branch of one method for all series, the same in both versions: the
\* rows, then the time column of every series against whole blood
SameMethodErr(self) ==
    IF Cardinality({Rows(self.blood_series[n]) : n \in LoadedNames(self)}) > 1
    THEN "Exception"
    ELSE IF \E n \in LoadedNames(self) :
              self.blood_series[n].time # self.blood_series["whole_blood_activity"].time
         THEN "AssertionError"
         ELSE ""

\* compare_lengths: one dictionary per series
CompareLengths(self) ==
    LET names == Loaded(self.blood_series)
    IN  [k \in 1..Len(names) |->
            [name |-> names[k], sampling_type |-> self.data_collection[names[k]],
             sample_length |-> Rows(self.blood_series[names[k]])]]
IsAuto(each) == each.sampling_type = "automatic"
IsManual(each) == ~IsAuto(each) /\ each.sampling_type = "manual"

\* the branch of mixed methods in pypet2bids, lines 388-470: the lengths
\* of whole blood and plasma choose the case; a missing series is an empty
\* DataFrame; the truth value of parent_fraction (line 426) is a ValueError
MixedErr(self) ==
    LET whole == Rows(self.blood_series["whole_blood_activity"])
        plasma == Rows(self.blood_series["plasma_activity"])
        parent == self.blood_series["parent_fraction"]
    IN  IF whole = plasma THEN "ValueError"
        ELSE IF whole > plasma /\ plasma = Rows(parent) - 1
        THEN IF /\ parent.time[1] = self.blood_series["whole_blood_activity"].time[1]
                /\ parent.time[1] = 0
             THEN "ValueError"
             ELSE "Exception"
        ELSE ""

\* check_time_info; in spreadsheet_conversion an automatically sampled
\* series with fewer rows than a manually sampled one has the warning
\* composed, which takes len() of a number
TimeChecked(self) ==
    LET several == Cardinality(LoadedNames(self)) >= 2
        kinds == Cardinality(MethodsOf(self))
        failed(e) == [self EXCEPT !.err = e, !.pc = IF e # "" THEN "error" ELSE "write"]
    IN  IF several /\ kinds = 1 THEN failed(SameMethodErr(self))
        ELSE IF several /\ kinds > 1
        THEN IF self.version = "pypet2bids" THEN failed(MixedErr(self))
             ELSE [failed(IF \E a, m \in 1..Len(CompareLengths(self)) :
                                /\ IsAuto(CompareLengths(self)[a])
                                /\ IsManual(CompareLengths(self)[m])
                                /\ CompareLengths(self)[a].sample_length
                                      < CompareLengths(self)[m].sample_length
                          THEN "TypeError" ELSE "")
                     EXCEPT !.auto_sampled = SelectSeq(CompareLengths(self), IsAuto),
                            !.manually_sampled = SelectSeq(CompareLengths(self), IsManual)]
        ELSE failed("")

CheckTimeInfo ==
    /\ At("check")
    /\ pmod_to_blood' = TimeChecked(pmod_to_blood)
    /\ UNCHANGED ecatVars

\* the columns of the frame built from a list: the last series, and the
\* columns of the others it lacks
Combined(self, sampled) ==
    UNION {Columns(self.blood_series[sampled[k].name]) : k \in 1..Len(sampled)}
Front(sampled) == SubSeq(sampled, 1, Len(sampled) - 1)

\* write_out_tsvs of pypet2bids, lines 660-680
TsvsWritten(self) ==
    LET auto == self.auto_sampled
        manual == self.manually_sampled
    IN  [self EXCEPT
            !.auto_sampled = IF auto # <<>> THEN Front(auto) ELSE auto,
            !.manually_sampled = IF manual # <<>> THEN Front(manual) ELSE manual,
            !.tsv = [automatic |-> IF auto # <<>> THEN ToCsv(Combined(self, auto))
                                   ELSE NoFile,
                     manual |-> IF manual # <<>> THEN ToCsv(Combined(self, manual))
                                ELSE NoFile],
            !.pc = "done"]

\* write_out_tsvs of spreadsheet_conversion, lines 261-276: the lists hold
\* the dictionaries of compare_lengths, which have neither columns nor to_csv
TsvsOfDictionaries(self) ==
    IF self.auto_sampled # <<>>
    THEN [self EXCEPT !.auto_sampled = Front(@), !.err = "AttributeError", !.pc = "error"]
    ELSE IF self.manually_sampled # <<>>
    THEN [self EXCEPT !.manually_sampled = Front(@), !.err = "AttributeError", !.pc = "error"]
    ELSE [self EXCEPT !.pc = "done"]

WriteOutTsvs ==
    /\ At("write")
    /\ pmod_to_blood' = IF pmod_to_blood.version = "pypet2bids"
                        THEN TsvsWritten(pmod_to_blood)
                        ELSE TsvsOfDictionaries(pmod_to_blood)
    /\ UNCHANGED ecatVars

PmodNext ==
    \/ PmodToBlood \/ CollectionMethod \/ Input(Answers) \/ AskRecordingType
    \/ ScaleTimeRenameColumns \/ CheckTimeInfo \/ WriteOutTsvs

PmodSpec == Init /\ [][PmodNext]_vars

\* the answers that end ask_recording_type; the program takes its steps,
\* and the user types one of these answers at some prompt
Decisive == {"m", "M", "a", "A", "y", "Y"}
PmodFairSpec ==
    /\ Init /\ [][PmodNext]_vars
    /\ WF_vars(CollectionMethod \/ AskRecordingType \/ ScaleTimeRenameColumns
                \/ CheckTimeInfo \/ WriteOutTsvs)
    /\ SF_vars(Input(Decisive))

(***************************************************************************)
(* Properties.                                                             *)
(***************************************************************************)
Ended == pc \in {"done", "error"}
Rescaled == pc \in {"image", "done", "error"} /\ frame_scaled # NoneV
AllFinite(a) == \A p \in DOMAIN a.v : IsFinite(a.v[p])
ArrEq(a, b) == a.shape = b.shape /\ \A p \in DOMAIN a.v : VEq(a.v[p], b.v[p])
StageSet == {stages[i] : i \in DOMAIN stages}

\* the argument combinations that carry a scan: a path and nothing else, or
\* the three parsed structures and no path
SuppliesFile(a) == ~a.ecat_file.none /\ a.ecat_file # EmptyPath
SuppliesNothingParsed(a) ==
    a.ecat_main_header = "None" /\ a.ecat_subheaders = "None" /\ a.ecat_pixel_data = "None"
SuppliesTriple(a) ==
    a.ecat_main_header = "dict" /\ a.ecat_subheaders = "list" /\ a.ecat_pixel_data = "ndarray"
ValidCombination(a) ==
    \/ SuppliesFile(a) /\ SuppliesNothingParsed(a)
    \/ a.ecat_file.none /\ SuppliesTriple(a)

\* C1: a call whose arguments carry no scan, or an inconsistent mix, ends
\* with the invalid-input-combination error, raised before any other step
\* (the derivation of the output path included).
C1_InvalidCombinationRaisedFirst ==
    (Ended /\ ~ValidCombination(args)) =>
        (pc = "error" /\ err = "InvalidInputCombination" /\ stages = <<>>)

\* C2: the shape check accepts exactly the arrays whose shape is the declared
\* (X, Y, Z, numFrames) or that have one frame and the declared X and Y; it
\* rejects every other with the shape-mismatch error; and it changes neither
\* the inputs nor anything the call produces.
C2_ShapeCheckAcceptsIff ==
    [][pc = "shape" =>
        LET t == data.shape
            d == <<sub_headers[1].X_DIMENSION, sub_headers[1].Y_DIMENSION,
                   sub_headers[1].Z_DIMENSION, main_header.NUM_FRAMES>>
            ok == t = d \/ (t[4] = 1 /\ t[1] = d[1] /\ t[2] = d[2])
        IN  /\ ok => (pc' = "alloc" /\ err' = "")
            /\ ~ok => (pc' = "error" /\ err' = "ShapeMismatch")
            /\ UNCHANGED <<args, source, nifti_file, main_header, sub_headers,
                           data, img_temp, start, delta, prompts, randoms,
                           properly_scaled, img_nii, files, ret>>]_vars

\* C2 witness: a one-frame array accepted although its shape is not the
\* declared one
C2_Witness == pc = "alloc" /\ single_frame /\ img_shape # shape_from_headers

\* C3: the stages run in the order shape check, per-frame scaling, rescale,
\* header synthesis, write; nothing runs after a failure; a call that ends
\* in an error has written no file; and a shape mismatch is raised before
\* any voxel is scaled.
StageRank(st) ==
    CASE st = "path" -> 1 [] st = "inputs" -> 2 [] st = "timezero" -> 3
      [] st = "shape" -> 4 [] st = "alloc" -> 5 [] st = "frame" -> 6
      [] st = "rescale" -> 7 [] st = "header" -> 8 [] st = "write" -> 9
C3_StagesInOrderFailFast ==
    /\ \A i, j \in DOMAIN stages :
          i < j => /\ StageRank(stages[i]) <= StageRank(stages[j])
                   /\ (stages[i] = stages[j] => stages[i] = "frame")
    /\ pc = "error" => /\ files = {}
                       /\ "write" \notin StageSet
                       /\ ret = NoneV
                       /\ ~ENABLED Next
    /\ err = "ShapeMismatch" => /\ "frame" \notin StageSet
                                /\ img_temp = NoneV
                                /\ start = <<>>

\* C3 witness: a call that fails after the rescale, in the header stage
C3_Witness == pc = "error" /\ "rescale" \in StageSet /\ img_nii # NoneV

\* C4: when the maximum of the per-frame-scaled array is 0 the call fails
\* with EmptyOrZeroImage before dividing: no rescaled array, no header, no
\* file.
C4_ZeroImageRejected ==
    (Rescaled /\ VEq(ArrayMax(frame_scaled), Zero)) =>
        /\ properly_scaled = NoneV /\ img_nii = NoneV /\ files = {}
        /\ Ended => err = "EmptyOrZeroImage"

\* C5: when an element of the input array is NaN or infinite the call fails
\* with NonFiniteValue: no rescaled array, no header, no file.
C5_NonFiniteRejected ==
    (data # NoneV /\ ~AllFinite(data)) =>
        /\ properly_scaled = NoneV /\ img_nii = NoneV /\ files = {}
        /\ Ended => err = "NonFiniteValue"

InI16(x) == VLeq(Num(I16Min), x) /\ VLeq(x, Num(I16Max))

\* C6 as stated: for a finite array with a non-zero maximum, every element of
\* the rescaled intermediate array lies in [-32768, 32767].
C6_IntermediateInRange ==
    (Rescaled /\ AllFinite(frame_scaled) /\ ~VEq(max_image, Zero)) =>
        \A p \in DOMAIN img_temp.v : InI16(img_temp.v[p])

\* C6 as amended: for a finite array with a positive maximum, every element
\* of the rescaled intermediate array lies in [-32768, 32767].
C6_InRangeWhenMaxPositive ==
    (Rescaled /\ AllFinite(frame_scaled) /\ VLess(Zero, max_image)) =>
        \A p \in DOMAIN img_temp.v : InI16(img_temp.v[p])

\* C6 witness: a positive maximum and a first-pass minimum below -32768, so
\* that the second pass has run
C6_Witness ==
    /\ Rescaled /\ AllFinite(frame_scaled) /\ VLess(Zero, max_image)
    /\ VLess(min_image, Num(I16Min))

ScaleConstants == {Num(2), Num(3), Frac(1, 2)}

\* C7 as stated: rescaling k*T gives the same final array as rescaling T and
\* the scale factor of T divided by k.
C7_ScaleInvariant ==
    (Rescaled /\ AllFinite(frame_scaled) /\ ~VEq(max_image, Zero)) =>
        \A k \in ScaleConstants :
            LET r == IntensityRescale(ArrayMul(frame_scaled, k))
            IN  /\ ArrEq(ProperlyScaled(r.img, r.sca, main_header), properly_scaled)
                /\ VEq(r.sca, VDiv(sca, k))

\* C7 as amended: rescaling k*T gives the same intermediate array as
\* rescaling T, the scale factor of T multiplied by k, and so a final array k
\* times that of T.
C7_IntermediateScaleInvariant ==
    (Rescaled /\ AllFinite(frame_scaled) /\ ~VEq(max_image, Zero)) =>
        \A k \in ScaleConstants :
            LET r == IntensityRescale(ArrayMul(frame_scaled, k))
            IN  /\ ArrEq(r.img, img_temp)
                /\ VEq(r.sca, VMul(sca, k))
                /\ ArrEq(ProperlyScaled(r.img, r.sca, main_header),
                         ArrayMul(properly_scaled, k))

\* C7 witness: a rescaled array with elements of both signs
C7_Witness ==
    /\ Rescaled /\ AllFinite(frame_scaled) /\ ~VEq(max_image, Zero)
    /\ \E p, q \in DOMAIN frame_scaled.v :
          VLess(frame_scaled.v[p], Zero) /\ VLess(Zero, frame_scaled.v[q])

\* C8: every element of the rescaled intermediate array, multiplied by the
\* scale factor, is the element's value before the rescale.
C8_ScaleRecoversValue ==
    (Rescaled /\ AllFinite(frame_scaled) /\ ~VEq(max_image, Zero)) =>
        \A p \in DOMAIN img_temp.v :
            VEq(VMul(img_temp.v[p], sca), frame_scaled.v[p])

\* C9: the factor scale * calibrationFactor of a conversion is in the header
\* of the image it builds or in the value it returns.
C9_FactorExposed ==
    img_nii # NoneV =>
        LET factor == VMul(sca, main_header.ECAT_CALIBRATION_FACTOR)
        IN  \/ VEq(img_nii.header["scl_slope"], factor)
            \/ (ret # NoneV /\ "scale" \in DOMAIN ret)

\* C10: a conversion that has built its image returns a value that holds,
\* besides the image, the sequences start, delta, prompts and randoms.
C10_SequencesReturned ==
    img_nii # NoneV =>
        /\ ret # NoneV
        /\ {"start", "delta", "prompts", "randoms"} \subseteq DOMAIN ret

RowEq(r, q) == Len(r) = Len(q) /\ \A j \in DOMAIN r : VEq(r[j], q[j])

\* C11: when the caller passes an affine, the header of the image keeps it:
\* the offsets and the sform rows are those of the passed affine, not values
\* computed from the pixel sizes and dimensions of SubHeader[0].
C11_AffineOverridePassedThrough ==
    (img_nii # NoneV /\ args.affine = "given") =>
        /\ img_nii.affine = "given"
        /\ VEq(img_nii.header["qoffset_x"], GivenAffine[1][4])
        /\ VEq(img_nii.header["qoffset_y"], GivenAffine[2][4])
        /\ VEq(img_nii.header["qoffset_z"], GivenAffine[3][4])
        /\ RowEq(img_nii.header["srow_x"], GivenAffine[1])
        /\ RowEq(img_nii.header["srow_y"], GivenAffine[2])
        /\ RowEq(img_nii.header["srow_z"], GivenAffine[3])

\* C13: the final array of a conversion has the shape of the input array,
\* also when the input was accepted as a single frame with a Z dimension or
\* a frame count other than the declared one.
C13_OutputShapeIsInputShape ==
    properly_scaled # NoneV => properly_scaled.shape = data.shape

\* the offset of an axis as the header synthesis defines it:
\* -1 * ((dim * pixelSize * 10 / 2) - pixelSize * 5)
AxisOffset(dim, size) ==
    VNeg(VSub(VDiv(VMul(VMul(Num(dim), size), Num(10)), Num(2)), VMul(size, Num(5))))

\* a call without affine that has built its image and ended
EndedWithImage == Ended /\ img_nii # NoneV /\ args.affine = "None"

\* C15: in the header of a conversion without affine, the qoffset of each of
\* the axes X, Y and Z is -1 * ((dim * pixelSize * 10 / 2) - pixelSize * 5)
\* of that axis of SubHeader[0].
C15_OffsetsOfAllAxes ==
    EndedWithImage =>
        LET sh0 == sub_headers[1]
        IN  /\ VEq(img_nii.header["qoffset_x"], AxisOffset(sh0.X_DIMENSION, sh0.X_PIXEL_SIZE))
            /\ VEq(img_nii.header["qoffset_y"], AxisOffset(sh0.Y_DIMENSION, sh0.Y_PIXEL_SIZE))
            /\ VEq(img_nii.header["qoffset_z"], AxisOffset(sh0.Z_DIMENSION, sh0.Z_PIXEL_SIZE))

\* C16: in the header of a conversion without affine, each sform row has
\* pixelSize * 10 of its axis (the pixdim entry of the axis) on the diagonal,
\* zero in the other two spatial columns and the qoffset of its axis in the
\* last column.
C16_SformRows ==
    EndedWithImage =>
        LET sh0 == sub_headers[1]
            hdr == img_nii.header
            px == VMul(sh0.X_PIXEL_SIZE, Num(10))
            py == VMul(sh0.Y_PIXEL_SIZE, Num(10))
            pz == VMul(sh0.Z_PIXEL_SIZE, Num(10))
        IN  /\ RowEq(hdr["srow_x"], <<px, Zero, Zero, hdr["qoffset_x"]>>)
            /\ RowEq(hdr["srow_y"], <<Zero, py, Zero, hdr["qoffset_y"]>>)
            /\ RowEq(hdr["srow_z"], <<Zero, Zero, pz, hdr["qoffset_z"]>>)
            /\ VEq(hdr["pixdim"][2], px) /\ VEq(hdr["pixdim"][3], py)
            /\ VEq(hdr["pixdim"][4], pz)

HasNaN(a) == \E p \in DOMAIN a.v : IsNaN(a.v[p])
\* x is the largest (smallest) element of a, which has no NaN
IsMaximumOf(x, a) ==
    /\ \E p \in DOMAIN a.v : VEq(a.v[p], x)
    /\ \A p \in DOMAIN a.v : VLeq(a.v[p], x)
IsMinimumOf(x, a) ==
    /\ \E p \in DOMAIN a.v : VEq(a.v[p], x)
    /\ \A p \in DOMAIN a.v : VLeq(x, a.v[p])

\* C17: in the header of every image built, cal_min is the maximum and
\* cal_max the minimum of the final array (NaN when the array holds a NaN),
\* so that cal_min >= cal_max whenever the array holds no NaN.
C17_CalSwapped ==
    (Ended /\ img_nii # NoneV) =>
        LET hdr == img_nii.header
        IN  IF HasNaN(properly_scaled)
            THEN IsNaN(hdr["cal_min"]) /\ IsNaN(hdr["cal_max"])
            ELSE /\ IsMaximumOf(hdr["cal_min"], properly_scaled)
                 /\ IsMinimumOf(hdr["cal_max"], properly_scaled)
                 /\ VLeq(hdr["cal_max"], hdr["cal_min"])

\* C17 witness: an image whose cal_min is strictly above its cal_max
C17_Witness ==
    /\ Ended /\ img_nii # NoneV /\ ~HasNaN(properly_scaled)
    /\ VLess(img_nii.header["cal_max"], img_nii.header["cal_min"])

\* the rates are read when the main header has a software version and the
\* version is at least 73
ReadsRates(mh) == mh.has_SW_VERSION /\ mh.SW_VERSION >= 73

\* C18: for every frame loaded, prompts and randoms are the rate times the
\* frame duration of the frame's sub-header times 60 when the software
\* version is at least 73, and 0 when it is lower or absent.
C18_PromptsRandoms ==
    /\ Len(prompts) = Len(randoms)
    /\ \A i \in DOMAIN prompts :
          LET sh == sub_headers[i]
          IN  IF ReadsRates(main_header)
              THEN /\ prompts[i] = sh.PROMPT_RATE * sh.FRAME_DURATION * 60
                   /\ randoms[i] = sh.RANDOM_RATE * sh.FRAME_DURATION * 60
              ELSE prompts[i] = 0 /\ randoms[i] = 0

\* C18 witness: two frames loaded from a version 73 scan, with rates that
\* differ from frame to frame
C18_Witness ==
    /\ Len(prompts) >= 2 /\ ReadsRates(main_header)
    /\ prompts[1] # prompts[2] /\ prompts[2] # 0 /\ randoms[2] # 0

\* the frame loop has run to its end
FramesLoaded == pc = "rescale" \/ Rescaled

\* C19: once the frames of an accepted input are loaded, each of start,
\* delta, prompts and randoms has MainHeader.numFrames entries, with
\* start[i] and delta[i] the start time and duration of SubHeader[i] times 60.
C19_OneEntryPerDeclaredFrame ==
    FramesLoaded =>
        /\ Len(start) = main_header.NUM_FRAMES
        /\ Len(delta) = main_header.NUM_FRAMES
        /\ Len(prompts) = main_header.NUM_FRAMES
        /\ Len(randoms) = main_header.NUM_FRAMES
        /\ \A i \in 1..main_header.NUM_FRAMES :
              /\ start[i] = sub_headers[i].FRAME_START_TIME * 60
              /\ delta[i] = sub_headers[i].FRAME_DURATION * 60

\* the declared shape with its spatial dimensions reversed
Reversed(d) == <<d[3], d[2], d[1], d[4]>>
DeclaredShape ==
    <<sub_headers[1].X_DIMENSION, sub_headers[1].Y_DIMENSION,
      sub_headers[1].Z_DIMENSION, main_header.NUM_FRAMES>>
\* the call has read its inputs and is past the shape check
ShapeChecked == data # NoneV /\ pc \notin {"timezero", "shape"}

\* C20 as stated: an array checked against the reversal (Z, Y, X) of the
\* declared shape it has is rejected with the shape-mismatch error.
C20_ReversedDeclaredRejected ==
    (ShapeChecked /\ DeclaredShape = Reversed(data.shape)) =>
        (pc = "error" /\ err = "ShapeMismatch")

\* C20 as amended: an array with X # Z checked against the reversal
\* (Z, Y, X) of the declared shape it has is rejected with the
\* shape-mismatch error.
C20_ReversedRejectedWhenXNotZ ==
    (ShapeChecked /\ DeclaredShape = Reversed(data.shape)
        /\ data.shape[1] # data.shape[3]) =>
        (pc = "error" /\ err = "ShapeMismatch")

\* C20 witness: a one-frame array with X # Z rejected against the reversed
\* declared shape
C20_Witness ==
    /\ ShapeChecked /\ DeclaredShape = Reversed(data.shape)
    /\ data.shape[1] # data.shape[3] /\ data.shape[4] = 1
    /\ err = "ShapeMismatch"

\* the locals of the two interleaved calls
ALocals == IF sched.self = "A" THEN LocalState ELSE sched.other
BLocals == IF sched.self = "B" THEN LocalState ELSE sched.other
HasEnded(l) == l.pc \in {"done", "error"}
\* the arguments with TimeZero given or not
WithTimeZero(a, tz) == [a EXCEPT !.TimeZero = tz]

\* C12: a call that differs from another in TimeZero only ends as the other
\* does (same error or none) with the same header, arrays and timing
\* sequences; a missing TimeZero gives the message and never an error.
C12_TimeZeroNeverInfluences ==
    /\ "timezero" \in StageSet => advisory = (args.TimeZero = "absent")
    /\ pc = "shape" => err = ""
    /\ (/\ sched.phase = "pair" /\ HasEnded(ALocals)
        /\ ALocals.args.TimeZero # sched.called.TimeZero
        /\ ALocals.args = WithTimeZero(sched.called, ALocals.args.TimeZero))
          => Outcome(ALocals) = sched.alone

\* C12 witness: a call without TimeZero has built its image as the call
\* with TimeZero did
C12_Witness ==
    /\ sched.phase = "pair" /\ HasEnded(ALocals)
    /\ ALocals.args.TimeZero = "absent" /\ sched.called.TimeZero = "given"
    /\ ALocals.advisory /\ ALocals.img_nii # NoneV

\* the inputs of the call with locals l are as the caller passed them
InputsIntact(l) ==
    l.data # NoneV =>
        /\ l.main_header = l.source.main_header
        /\ l.sub_headers = l.source.sub_headers
        /\ l.data = l.source.data

\* C14: of two interleaved calls on separate inputs and output paths, each
\* produces the header, arrays and timing sequences that the same call
\* produces alone, and neither changes its main header, sub-headers or array.
C14_CallsIndependent ==
    sched.phase = "pair" =>
        /\ InputsIntact(ALocals) /\ InputsIntact(BLocals)
        /\ (HasEnded(ALocals) /\ ALocals.args = sched.called)
              => Outcome(ALocals) = sched.alone
        /\ (/\ HasEnded(BLocals) /\ BLocals.source = ALocals.source
            /\ sched.called = [BLocals.args EXCEPT !.nifti_file = sched.called.nifti_file])
              => Outcome(BLocals) = sched.alone

\* C14 witness: two calls on different scans have both built their images,
\* one of them having been suspended while the other was under way
C14_Witness ==
    /\ sched.phase = "pair" /\ sched.mixed
    /\ HasEnded(ALocals) /\ HasEnded(BLocals)
    /\ ALocals.args = sched.called
    /\ ALocals.source # BLocals.source
    /\ ALocals.img_nii # NoneV /\ BLocals.img_nii # NoneV

\* SubHeader[0] of the scenario: dimensions (128, 128, 63), pixel sizes
\* (2.0, 2.0, 2.5)
ScenarioGeometry(sh) ==
    /\ sh.X_DIMENSION = 128 /\ sh.Y_DIMENSION = 128 /\ sh.Z_DIMENSION = 63
    /\ VEq(sh.X_PIXEL_SIZE, Num(2)) /\ VEq(sh.Y_PIXEL_SIZE, Num(2))
    /\ VEq(sh.Z_PIXEL_SIZE, Frac(5, 2))
ScenarioPixdim(hdr) ==
    /\ VEq(hdr["pixdim"][2], Num(20)) /\ VEq(hdr["pixdim"][3], Num(20))
    /\ VEq(hdr["pixdim"][4], Num(25))

\* C21 as stated: for pixel sizes (2.0, 2.0, 2.5) and dimensions
\* (128, 128, 63) the header has pixdim[1..3] = [20, 20, 25] and
\* qoffset_x = -1180.
C21_ScenarioOffsetAsStated ==
    (img_nii # NoneV /\ sub_headers # <<>> /\ ScenarioGeometry(sub_headers[1])) =>
        /\ ScenarioPixdim(img_nii.header)
        /\ VEq(img_nii.header["qoffset_x"], Num(-1180))

\* C21 as amended: for pixel sizes (2.0, 2.0, 2.5) and dimensions
\* (128, 128, 63) the header has pixdim[1..3] = [20, 20, 25] and
\* qoffset_x = -1270.
C21_ScenarioOffset ==
    (img_nii # NoneV /\ sub_headers # <<>> /\ ScenarioGeometry(sub_headers[1])) =>
        /\ ScenarioPixdim(img_nii.header)
        /\ VEq(img_nii.header["qoffset_x"], Num(-1270))

\* C21 witness: the header synthesized for the geometry of the scenario
C21_Witness ==
    /\ img_nii # NoneV /\ sub_headers # <<>> /\ ScenarioGeometry(sub_headers[1])
    /\ ~VEq(img_nii.header["qoffset_x"], Zero)

\* C23: when the per-frame-scaled array has a positive maximum and a
\* minimum below -32768, the minimum after the first pass is below -32768
\* (the second pass runs) and no element of the final array exceeds 32767 in
\* absolute value.
C23_SecondPassTriggers ==
    (/\ Rescaled /\ AllFinite(frame_scaled) /\ VLess(Zero, ArrayMax(frame_scaled))
     /\ VLess(ArrayMin(frame_scaled), Num(-32768))) =>
        /\ VLess(min_image, Num(-32768))
        /\ \A p \in DOMAIN properly_scaled.v :
              /\ VLeq(properly_scaled.v[p], Num(32767))
              /\ VLeq(Num(-32767), properly_scaled.v[p])

\* the same number, or NaN both
SameValue(a, b) == IF IsNaN(a) \/ IsNaN(b) THEN IsNaN(a) /\ IsNaN(b) ELSE VEq(a, b)

\* the voxel of which <<x, y, z>> is the mirror image in an array of shape sh
Mirror(sh, p) == <<sh[1] - 1 - p[1], sh[2] - 1 - p[2], sh[3] - 1 - p[3], p[4]>>

\* C24: for an array of the declared shape, every voxel of a frame loaded
\* is the voxel of the same frame of the input mirrored along X, Y and Z,
\* times the scale factor of the frame's sub-header; the frames not yet
\* loaded are as allocated.
C24_FramesMirroredAndScaled ==
    (/\ pc \in {"loop", "rescale"} /\ img_temp # NoneV
     /\ data.shape = img_temp.shape) =>
        \A p \in DOMAIN img_temp.v :
            IF p[4] < index
            THEN SameValue(img_temp.v[p],
                           VMul(data.v[Mirror(data.shape, p)],
                                sub_headers[p[4] + 1].SCALE_FACTOR))
            ELSE img_temp.v[p] = Zero

\* C24 witness: two frames loaded of an array with more than one voxel along
\* each of X, Y and Z
C24_Witness ==
    /\ pc = "rescale" /\ data.shape = img_temp.shape /\ index >= 2
    /\ data.shape[1] >= 2 /\ data.shape[2] >= 2 /\ data.shape[3] >= 2
    /\ ~VEq(img_temp.v[<<0, 0, 0, 0>>], img_temp.v[<<0, 0, 0, 1>>])

\* C25: once the shape check has accepted the input, the per-frame loop
\* runs to its end: a call that the shape check accepted and that ends in
\* an error has loaded every frame.
C25_FrameLoopNeverRaises ==
    ("shape" \in StageSet /\ pc = "error") => "rescale" \in StageSet

\* C26: for a finite per-frame-scaled array with non-zero maximum, every
\* element of the final array is the per-frame-scaled element times the
\* calibration factor divided by 32767^2 when the second pass has not run,
\* and divided by 32767^2 * 32768^2 when it has.
C26_FinalIsLinearImage ==
    (Rescaled /\ AllFinite(frame_scaled) /\ ~VEq(max_image, Zero)) =>
        LET c == main_header.ECAT_CALIBRATION_FACTOR
            i16 == VMul(Num(32767), Num(32767))
            divisor == IF VLess(min_image, Num(-32768))
                       THEN VMul(i16, VMul(Num(32768), Num(32768)))
                       ELSE i16
        IN  \A p \in DOMAIN properly_scaled.v :
                VEq(properly_scaled.v[p],
                    VDiv(VMul(frame_scaled.v[p], c), divisor))

\* C26 witness: the second pass has run on an array with a calibration
\* factor other than 1
C26_Witness ==
    /\ Rescaled /\ AllFinite(frame_scaled) /\ ~VEq(max_image, Zero)
    /\ VLess(min_image, Num(-32768))
    /\ ~VEq(main_header.ECAT_CALIBRATION_FACTOR, Num(1))
    /\ \E p \in DOMAIN properly_scaled.v : ~VEq(properly_scaled.v[p], Zero)


(***************************************************************************)
(* Properties of PmodToBlood.                                              *)
(***************************************************************************)
IsVersion(version) == Constructing /\ pmod_to_blood.version = version
Series == IF Constructing THEN LoadedNames(pmod_to_blood) ELSE {}

\* C22: in pypet2bids, once check_time_info has returned without error,
\* whatever the sampling methods of the loaded series, all loaded series
\* have the same number of rows and the same values in the time column
\* (so that files that differ in either make it raise).
C22_TimeConsistencyEnforced ==
    (IsVersion("pypet2bids") /\ pmod_to_blood.pc \in {"write", "done"}) =>
        \A n, m \in Series :
            /\ Rows(pmod_to_blood.blood_series[n]) = Rows(pmod_to_blood.blood_series[m])
            /\ pmod_to_blood.blood_series[n].time = pmod_to_blood.blood_series[m].time

\* the factor the header of a file asks for
FactorOf(header) == IF HasMin(header) THEN SecondsPerMinute ELSE 1

\* C27: in spreadsheet_conversion, the time column of every file that
\* scale_time_rename_columns has processed is that of the file times 60 if
\* the header of the file is in minutes and times 1 if it is in seconds,
\* whichever files came before it.
C27_FactorOfOwnHeader ==
    IsVersion("spreadsheet_conversion") =>
        \A n \in Series :
            pmod_to_blood.blood_series[n].time_header = "time" =>
                \A k \in 1..Rows(pmod_to_blood.files[n]) :
                    pmod_to_blood.blood_series[n].time[k] =
                        pmod_to_blood.files[n].time[k]
                            * FactorOf(pmod_to_blood.files[n].time_header)

\* C28: in pypet2bids, a loaded series whose collection method is among
\* the key-value arguments, passed as keywords or through main(), is never
\* asked about and is recorded with the supplied method; only series whose
\* method was not supplied are asked about.
C28_SuppliedMethodNotAsked ==
    IsVersion("pypet2bids") =>
        \A n \in Series :
            pmod_to_blood.kwargs.items[n] # "None" =>
                /\ n \notin pmod_to_blood.asked
                /\ pmod_to_blood.data_collection[n]
                        \in {"None", pmod_to_blood.kwargs.items[n]}

\* C29: in both versions, once the construction has completed without
\* error, the column of every series recorded as manual is in the manual
\* TSV, that of every series recorded as automatic is in the automatic
\* TSV, and at least one of the two files has been written.
C29_EverySeriesWritten ==
    At("done") =>
        /\ \A n \in Series :
              /\ pmod_to_blood.data_collection[n] = "manual" =>
                    BidsColumn(n) \in pmod_to_blood.tsv.manual.columns
              /\ pmod_to_blood.data_collection[n] = "automatic" =>
                    BidsColumn(n) \in pmod_to_blood.tsv.automatic.columns
        /\ pmod_to_blood.tsv.manual.written \/ pmod_to_blood.tsv.automatic.written

\* the method an answer stands for
MethodOf(how) == IF how \in {"a", "A"} THEN "automatic" ELSE "manual"

\* C30: if the user types m, a or y at some prompt, ask_recording_type
\* returns: a prompt is followed by the return to the loop of __init__;
\* the first answer among m, a, y (in either case) returns with manual
\* recorded for m and y and automatic for a, every other entry of
\* data_collection as it was; any other answer leads to one more prompt
\* and changes nothing else.
C30_AskReturnsOnAnswer ==
    /\ At("input") ~> At("methods")
    /\ [][At("answered") =>
            IF pmod_to_blood.how \in Decisive
            THEN /\ pmod_to_blood'.pc = "methods"
                 /\ pmod_to_blood'.data_collection =
                        [pmod_to_blood.data_collection EXCEPT
                            ![pmod_to_blood.recording] = MethodOf(pmod_to_blood.how)]
            ELSE pmod_to_blood' = [pmod_to_blood EXCEPT !.pc = "input"]]_vars

C30_Witness ==
    /\ At("methods")
    /\ "parent_fraction" \in pmod_to_blood.asked
    /\ pmod_to_blood.data_collection["parent_fraction"] = "automatic"
    /\ pmod_to_blood.data_collection["whole_blood_activity"] = "manual"
    /\ "whole_blood_activity" \notin pmod_to_blood.asked

====
